---- MODULE Spec2Model ----
(***************************************************************************)
(* Model of scripts/pc_receiver.py: the receive loop of main() that reads  *)
(* the OMT frame stream from a TCP socket, splits it into 36-byte headers  *)
(* and payloads, and writes every payload to stdout.                       *)
(*                                                                         *)
(* Bytes are integers 0..255, byte strings are sequences of them.  The     *)
(* header is really packed and unpacked big-endian, field by field.  TLC   *)
(* integers are 32 bit signed, so the field values the sender picks stay   *)
(* below 2^31; the decoding itself is the positional one of struct.unpack. *)
(***************************************************************************)
EXTENDS Integers, Sequences, FiniteSets, TLC

\* ------------------------------------------------------------------ bounds
MaxFrames == 2      \* frames the sender has queued
MaxPayload == 2     \* longest payload, in bytes

\* ------------------------------------------------------- program constants
MAGIC == 1330467888         \* 0x4F4D5430, "OMT0"
HeaderSize == 36            \* 4 + 4 + 4 + 4 + 4 + 4 + 8 + 4
RecvMax == 65536            \* s.recv(65536)
ReportEvery == 100          \* frame_count % 100 == 0
None == -1                  \* Python's None / a local not yet bound

\* ------------------------------------------------------------ byte strings
Min(a, b) == IF a < b THEN a ELSE b

\* a slip: the whole buffer instead of its first n bytes
TakeAll(b, n) == b

\* buf[:n]
Take(b, n) == SubSeq(b, 1, Min(n, Len(b)))

\* a slip: the buffer is cleared instead of cut after n bytes
DropAll(b, n) == <<>>

\* buf[n:]
Drop(b, n) == SubSeq(b, n + 1, Len(b))

\* b[i:j], 0-based, half open, as a Python slice
Slice(b, i, j) == SubSeq(b, i + 1, Min(j, Len(b)))

\* int.from_bytes(b, "big"): what struct.unpack does for one ">I" or ">Q" field
RECURSIVE FromBE(_)
FromBE(b) ==
    IF b = <<>> THEN 0
    ELSE FromBE(SubSeq(b, 1, Len(b) - 1)) * 256 + b[Len(b)]

\* n.to_bytes(k, "big"): the sender's side of the same field
RECURSIVE ToBE(_, _)
ToBE(n, k) ==
    IF k = 0 THEN <<>>
    ELSE Append(ToBE(n \div 256, k - 1), n % 256)

\* a slip: the payload length is taken to be the size of the luma plane,
\* stride_y * height, instead of the header's payload_len
UnpackSizeFromStride(h) ==
    [magic       |-> FromBE(Slice(h, 0, 4)),
     width       |-> FromBE(Slice(h, 4, 8)),
     height      |-> FromBE(Slice(h, 8, 12)),
     stride_y    |-> FromBE(Slice(h, 12, 16)),
     stride_u    |-> FromBE(Slice(h, 16, 20)),
     stride_v    |-> FromBE(Slice(h, 20, 24)),
     ts          |-> FromBE(Slice(h, 24, 32)),
     payload_len |-> FromBE(Slice(h, 12, 16)) * FromBE(Slice(h, 8, 12))]

\* struct.unpack(">IIIIIIQI", h) on a 36-byte prefix
Unpack(h) ==
    [magic       |-> FromBE(Slice(h, 0, 4)),
     width       |-> FromBE(Slice(h, 4, 8)),
     height      |-> FromBE(Slice(h, 8, 12)),
     stride_y    |-> FromBE(Slice(h, 12, 16)),
     stride_u    |-> FromBE(Slice(h, 16, 20)),
     stride_v    |-> FromBE(Slice(h, 20, 24)),
     ts          |-> FromBE(Slice(h, 24, 32)),
     payload_len |-> FromBE(Slice(h, 32, 36))]

\* ------------------------------------------------------------- the sender
\* The phone's side of the wire: one frame is the packed header followed by
\* the payload bytes.
Metas ==
    { [width |-> 2, height |-> 1, stride_y |-> 2, stride_u |-> 1,
       stride_v |-> 1, ts |-> 7],
      [width |-> 640, height |-> 480, stride_y |-> 640, stride_u |-> 320,
       stride_v |-> 320, ts |-> 70000] }

SmallMeta == CHOOSE m \in Metas : m.width = 2
LargeMeta == CHOOSE m \in Metas : m.width = 640

\* the payload of n bytes: its bytes tell its length and their position
PayloadOf(n) == [i \in 1..n |-> 10 * n + i]

FrameOf(m, meta, n) == [magic |-> m, meta |-> meta, payload |-> PayloadOf(n)]

\* well-formed frames of every payload length, one of them also with the
\* other dimensions, and a frame whose marker is wrong
GoodFrames ==
    { FrameOf(MAGIC, SmallMeta, n) : n \in 0..MaxPayload }
    \cup { FrameOf(MAGIC, LargeMeta, MaxPayload) }
BadFrames == { FrameOf(MAGIC + 1, SmallMeta, 1) }
FrameSet == GoodFrames \cup BadFrames

EncodeHeader(f) ==
    ToBE(f.magic, 4) \o ToBE(f.meta.width, 4) \o ToBE(f.meta.height, 4)
    \o ToBE(f.meta.stride_y, 4) \o ToBE(f.meta.stride_u, 4)
    \o ToBE(f.meta.stride_v, 4) \o ToBE(f.meta.ts, 8)
    \o ToBE(Len(f.payload), 4)

EncodeFrame(f) == EncodeHeader(f) \o f.payload

RECURSIVE EncodeAll(_)
EncodeAll(fs) ==
    IF fs = <<>> THEN <<>>
    ELSE EncodeFrame(Head(fs)) \o EncodeAll(Tail(fs))

FrameSeqs == UNION { [1..k -> FrameSet] : k \in 0..MaxFrames }

\* the same frame with the other width, height, strides and timestamp
SwapMeta(f) ==
    [f EXCEPT !.meta = IF @ = SmallMeta THEN LargeMeta ELSE SmallMeta]

\* the same stream, every frame with the other metadata
TwinFrames(fs) == [i \in 1..Len(fs) |-> SwapMeta(fs[i])]

\* ------------------------------------------------------------------ state
VARIABLES
    frames,       \* what the sender has queued (fixed in a run)
    wire,         \* its encoding, the bytes the peer sends unless it closes early
    pos,          \* bytes of wire that recv has returned so far
    closed,       \* recv has returned b"": the peer closed after pos bytes
    buf,          \* buf
    need,         \* need
    hdr,          \* magic, width, ..., payload_len of the last unpack
    frame_count,  \* frame_count
    sink,         \* payloads sys.stdout.buffer.write has accepted, in order
    stderr,       \* lines written to sys.stderr, in order
    pc,           \* "top" (line 37), "payload" (line 52), "done" (after line 69),
                  \* "exit3" (sys.exit(3) at line 48)
    exitPath,     \* how the loop was left: "running", "break40", "break57",
                  \* "exit48", "except65", "except67"
    hdrs,         \* history: the raw 36-byte prefixes unpacked so far
    twin          \* a second run of the receiver, on the twin stream, that
                  \* meets the same recv sizes, the same broken pipe and
                  \* the same interrupt: its wire, pos, buf, need, hdr,
                  \* frame_count, sink, stderr, pc and exitPath

vars == <<frames, wire, pos, closed, buf, need, hdr, frame_count, sink,
          stderr, pc, exitPath, hdrs, twin>>

NoHeader ==
    [magic |-> None, width |-> None, height |-> None, stride_y |-> None,
     stride_u |-> None, stride_v |-> None, ts |-> None, payload_len |-> None]

Init ==
    /\ frames \in FrameSeqs
    /\ wire = EncodeAll(frames)
    /\ pos = 0
    /\ closed = FALSE
    /\ buf = <<>>
    /\ need = HeaderSize
    /\ hdr = NoHeader
    /\ frame_count = 0
    /\ sink = <<>>
    /\ stderr = <<>>
    /\ pc = "top"
    /\ exitPath = "running"
    /\ hdrs = <<>>
    /\ twin = [wire |-> EncodeAll(TwinFrames(frames)), pos |-> 0,
               buf |-> <<>>, need |-> HeaderSize, hdr |-> NoHeader,
               frame_count |-> 0, sink |-> <<>>, stderr |-> <<>>,
               pc |-> "top", exitPath |-> "running"]

\* --------------------------------------------------------------- transport
\* s.recv(65536) on a blocking socket: between 1 and 65536 of the bytes still
\* to come, or b"" once the peer has closed.  The peer may close at any point
\* of the stream; once it has, every later recv returns b"".
RecvSizes == IF closed THEN {0} ELSE 0..Min(RecvMax, Len(wire) - pos)

Chunk(n) == SubSeq(wire, pos + 1, pos + n)

Transport(n) ==
    /\ pos' = pos + n
    /\ closed' = (closed \/ n = 0)

\* a slip: buf = chunk instead of buf += chunk
Overwrite(b, chunk) == chunk

\* buf += chunk
Extend(b, chunk) == b \o chunk

\* a slip: the read returned nothing, instead of the buffer is empty
NeverEmpty(b) == FALSE

\* not buf
IsEmpty(b) == b = <<>>

\* a slip: off by one, a header is unpacked from 35 bytes
ShortByOne(b, n) == Len(b) + 1 < n

\* a slip: <= instead of <, one more read with a whole header buffered
ShortOrEqual(b, n) == Len(b) <= n

\* len(buf) < need
Short(b, n) == Len(b) < n

\* a slip: <= instead of <
PayloadShortOrEqual(b, n) == Len(b) <= n

\* len(buf) < payload_len
PayloadShort(b, n) == Len(b) < n

\* a slip: the marker is never checked
NeverBad(m) == FALSE

\* a slip: the marker is checked on the first frame only
BadMagicFirstOnly(m) == frame_count = 0 /\ m # MAGIC

\* magic != MAGIC
BadMagic(m) == m # MAGIC

\* ------------------------------------------------------------------ stderr
StreamLine(h) ==
    <<"Stream", h.width, h.height, h.stride_y, h.stride_u, h.stride_v>>
BadMagicLine(m) == <<"Bad magic", m>>
FramesLine(n) == <<"Frames", n>>
DoneLine(n) == <<"Done. Frames received", n>>

\* sys.stdout.buffer.write(frame) raises BrokenPipeError only when bytes
\* are pushed to the closed pipe, so a write of b"" cannot fail
WriteMayFail(frame) == frame # <<>>

\* a slip: the frame is not counted
NoBump(n) == n

\* frame_count += 1
Bump(n) == n + 1

\* ------------------------------------------------------------ the twin run
\* The same loop, lines 37-66, as a function on the record of the twin run:
\* n is the size of the chunk recv returns (0: the peer has closed), fail
\* tells whether a write of bytes raises BrokenPipeError.
TwinReads(t) ==
    \/ t.pc = "top" /\ Short(t.buf, t.need)
    \/ t.pc = "payload" /\ PayloadShort(t.buf, t.hdr.payload_len)

TwinRecv(t, n, after) ==
    LET b == Extend(t.buf, SubSeq(t.wire, t.pos + 1, t.pos + n)) IN
    IF IsEmpty(b)
    THEN [t EXCEPT !.pos = @ + n, !.buf = b, !.pc = "done",
                   !.exitPath = after,
                   !.stderr = Append(@, DoneLine(t.frame_count))]
    ELSE [t EXCEPT !.pos = @ + n, !.buf = b]

TwinHeader(t) ==
    LET h == Unpack(Take(t.buf, t.need)) IN
    IF BadMagic(h.magic)
    THEN [t EXCEPT !.hdr = h, !.buf = Drop(@, t.need), !.pc = "exit3",
                   !.exitPath = "exit48",
                   !.stderr = Append(@, BadMagicLine(h.magic))]
    ELSE [t EXCEPT !.hdr = h, !.buf = Drop(@, t.need), !.pc = "payload",
                   !.need = h.payload_len,
                   !.stderr = IF t.frame_count = 0
                              THEN Append(@, StreamLine(h))
                              ELSE @]

TwinEmit(t, fail) ==
    LET frame == Take(t.buf, t.hdr.payload_len) IN
    IF fail /\ WriteMayFail(frame)
    THEN [t EXCEPT !.buf = Drop(@, t.hdr.payload_len), !.need = HeaderSize,
                   !.pc = "done", !.exitPath = "except65",
                   !.stderr = Append(@, DoneLine(t.frame_count))]
    ELSE [t EXCEPT !.buf = Drop(@, t.hdr.payload_len), !.need = HeaderSize,
                   !.sink = Append(@, frame),
                   !.frame_count = Bump(@),
                   !.stderr = IF Bump(t.frame_count) % ReportEvery = 0
                              THEN Append(@, FramesLine(Bump(t.frame_count)))
                              ELSE @,
                   !.pc = "top"]

TwinInterrupt(t) ==
    IF t.pc \in {"top", "payload"}
    THEN [t EXCEPT !.pc = "done", !.exitPath = "except67",
                   !.stderr = Append(@, DoneLine(t.frame_count))]
    ELSE t

\* One step of the twin beside a step of the run: the twin is interrupted
\* when the run is, reads a chunk of the same size when the run reads, and
\* meets a broken pipe when the run does.  A twin that reads when the run
\* does not, or the other way round, has left the run's sequence of reads.
TwinStep(t, reads, n, fail, interrupted) ==
    IF interrupted THEN TwinInterrupt(t)
    ELSE IF t.pc \notin {"top", "payload"} THEN t
    ELSE IF TwinReads(t) # reads THEN [t EXCEPT !.pc = "diverged"]
    ELSE IF TwinReads(t)
         THEN TwinRecv(t, n, IF t.pc = "top" THEN "break40" ELSE "break57")
    ELSE IF t.pc = "top" THEN TwinHeader(t)
    ELSE TwinEmit(t, fail)

\* the run reads in this step
Reads ==
    \/ pc = "top" /\ Short(buf, need)
    \/ pc = "payload" /\ PayloadShort(buf, hdr.payload_len)

TwinFollows ==
    twin' = TwinStep(twin, Reads, pos' - pos, exitPath' = "except65",
                     exitPath' = "except67")

\* ----------------------------------------------------------------- actions
\* lines 37-41: the buffer is short of a header, read once and loop
RecvHeader ==
    /\ pc = "top"
    /\ Short(buf, need)
    /\ \E n \in RecvSizes :
         LET b == Extend(buf, Chunk(n)) IN
         /\ Transport(n)
         /\ buf' = b
         /\ IF IsEmpty(b)
            THEN /\ pc' = "done"
                 /\ exitPath' = "break40"
                 /\ stderr' = Append(stderr, DoneLine(frame_count))
            ELSE /\ pc' = "top"
                 /\ UNCHANGED <<exitPath, stderr>>
    /\ UNCHANGED <<frames, wire, need, hdr, frame_count, sink, hdrs>>
    /\ TwinFollows

\* a slip: the dimensions are logged for every header, not only while
\* frame_count is 0
HeaderLogsAlways ==
    /\ pc = "top"
    /\ ~Short(buf, need)
    /\ LET h == Unpack(Take(buf, need)) IN
       /\ hdr' = h
       /\ hdrs' = Append(hdrs, Take(buf, need))
       /\ buf' = Drop(buf, need)
       /\ IF BadMagic(h.magic)
          THEN /\ stderr' = Append(stderr, BadMagicLine(h.magic))
               /\ pc' = "exit3"
               /\ exitPath' = "exit48"
               /\ need' = need
          ELSE /\ stderr' = Append(stderr, StreamLine(h))
               /\ need' = h.payload_len
               /\ pc' = "payload"
               /\ exitPath' = exitPath
    /\ UNCHANGED <<frames, wire, pos, closed, frame_count, sink>>
    /\ TwinFollows

\* lines 42-51: unpack the header, check the marker, log the first one
Header ==
    /\ pc = "top"
    /\ ~Short(buf, need)
    /\ LET h == Unpack(Take(buf, need)) IN
       /\ hdr' = h
       /\ hdrs' = Append(hdrs, Take(buf, need))
       /\ buf' = Drop(buf, need)
       /\ IF BadMagic(h.magic)
          THEN /\ stderr' = Append(stderr, BadMagicLine(h.magic))
               /\ pc' = "exit3"
               /\ exitPath' = "exit48"
               /\ need' = need
          ELSE /\ stderr' = IF frame_count = 0
                            THEN Append(stderr, StreamLine(h))
                            ELSE stderr
               /\ need' = h.payload_len
               /\ pc' = "payload"
               /\ exitPath' = exitPath
    /\ UNCHANGED <<frames, wire, pos, closed, frame_count, sink>>
    /\ TwinFollows

\* lines 52-57: the buffer is short of the payload, read once; an empty
\* buffer after the read leaves both loops
RecvPayload ==
    /\ pc = "payload"
    /\ PayloadShort(buf, hdr.payload_len)
    /\ \E n \in RecvSizes :
         LET b == Extend(buf, Chunk(n)) IN
         /\ Transport(n)
         /\ buf' = b
         /\ IF IsEmpty(b)
            THEN /\ pc' = "done"
                 /\ exitPath' = "break57"
                 /\ stderr' = Append(stderr, DoneLine(frame_count))
            ELSE /\ pc' = "payload"
                 /\ UNCHANGED <<exitPath, stderr>>
    /\ UNCHANGED <<frames, wire, need, hdr, frame_count, sink, hdrs>>
    /\ TwinFollows

\* a slip: the frame is counted before it is written, so a frame whose
\* write raised is counted too
EmitCountsFirst ==
    /\ pc = "payload"
    /\ ~PayloadShort(buf, hdr.payload_len)
    /\ LET frame == Take(buf, hdr.payload_len) IN
       /\ buf' = Drop(buf, hdr.payload_len)
       /\ need' = HeaderSize
       /\ frame_count' = Bump(frame_count)
       /\ \/ /\ sink' = Append(sink, frame)
             /\ stderr' = IF frame_count' % ReportEvery = 0
                          THEN Append(stderr, FramesLine(frame_count'))
                          ELSE stderr
             /\ pc' = "top"
             /\ exitPath' = exitPath
          \/ /\ WriteMayFail(frame)
             /\ sink' = sink
             /\ stderr' = Append(stderr, DoneLine(frame_count'))
             /\ pc' = "done"
             /\ exitPath' = "except65"
    /\ UNCHANGED <<frames, wire, pos, closed, hdr, hdrs>>
    /\ TwinFollows

\* lines 58-64, and 65-66 when the write raises BrokenPipeError
Emit ==
    /\ pc = "payload"
    /\ ~PayloadShort(buf, hdr.payload_len)
    /\ LET frame == Take(buf, hdr.payload_len) IN
       /\ buf' = Drop(buf, hdr.payload_len)
       /\ need' = HeaderSize
       /\ \/ /\ sink' = Append(sink, frame)
             /\ frame_count' = Bump(frame_count)
             /\ stderr' = IF frame_count' % ReportEvery = 0
                          THEN Append(stderr, FramesLine(frame_count'))
                          ELSE stderr
             /\ pc' = "top"
             /\ exitPath' = exitPath
          \/ /\ WriteMayFail(frame)
             /\ sink' = sink
             /\ frame_count' = frame_count
             /\ stderr' = Append(stderr, DoneLine(frame_count))
             /\ pc' = "done"
             /\ exitPath' = "except65"
    /\ UNCHANGED <<frames, wire, pos, closed, hdr, hdrs>>
    /\ TwinFollows

\* a slip: the handler is a bare except, which also catches the SystemExit
\* of sys.exit(3) and goes on to line 69
InterruptCatchesExit ==
    /\ pc \in {"top", "payload", "exit3"}
    /\ pc' = "done"
    /\ exitPath' = "except67"
    /\ stderr' = Append(stderr, DoneLine(frame_count))
    /\ UNCHANGED <<frames, wire, pos, closed, buf, need, hdr, frame_count,
                   sink, hdrs>>
    /\ TwinFollows

\* lines 67-69: Ctrl-C anywhere in the loop
Interrupt ==
    /\ pc \in {"top", "payload"}
    /\ pc' = "done"
    /\ exitPath' = "except67"
    /\ stderr' = Append(stderr, DoneLine(frame_count))
    /\ UNCHANGED <<frames, wire, pos, closed, buf, need, hdr, frame_count,
                   sink, hdrs>>
    /\ TwinFollows

Step == RecvHeader \/ Header \/ RecvPayload \/ Emit

Next == Step \/ Interrupt

Spec == Init /\ [][Next]_vars

\* The interpreter keeps running the loop; nothing obliges the user to
\* interrupt it.
FairSpec == Spec /\ WF_vars(Step)

\* the process exit status, once it has one
ExitStatus == IF pc = "done" THEN 0 ELSE IF pc = "exit3" THEN 3 ELSE None

Terminated == pc \in {"done", "exit3"}

TypeOK ==
    /\ pos \in 0..Len(wire)
    /\ closed \in BOOLEAN
    /\ frame_count \in 0..MaxFrames
    /\ pc \in {"top", "payload", "done", "exit3"}

\* ----------------------------------------------------- what the claims use
\* the bytes recv has returned so far
Received == SubSeq(wire, 1, pos)

\* every 36-byte prefix unpacked so far, each followed by the payload
\* written for it (the last one may have none yet)
RECURSIVE Consumed(_, _)
Consumed(hs, ps) ==
    IF hs = <<>> THEN <<>>
    ELSE Head(hs)
         \o (IF ps = <<>> THEN <<>> ELSE Head(ps))
         \o Consumed(Tail(hs), IF ps = <<>> THEN <<>> ELSE Tail(ps))

AllGood(fs) == \A i \in 1..Len(fs) : fs[i].magic = MAGIC

PayloadsOf(fs) == [i \in 1..Len(fs) |-> fs[i].payload]

IsPrefix(a, b) == Len(a) <= Len(b) /\ a = SubSeq(b, 1, Len(a))

LastLine == stderr[Len(stderr)]

\* the outcome a user of the process sees: exit status and closing line
CleanOutcome ==
    /\ ExitStatus = 0
    /\ stderr # <<>>
    /\ LastLine[1] = "Done. Frames received"

\* C1: chunking invariance.  For a stream of well-formed frames delivered
\* whole and then closed, whatever sizes recv returned, the receiver has
\* left the loop at the end-of-stream break and the sink holds exactly the
\* sender's payloads, in order and each in full; on the way the sink is
\* always a prefix of them.
C1_ChunkingInvariance ==
    AllGood(frames) =>
        /\ IsPrefix(sink, PayloadsOf(frames))
        /\ (closed /\ pos = Len(wire)) =>
               /\ pc = "done"
               /\ exitPath = "break40"
               /\ sink = PayloadsOf(frames)

C1_Witness ==
    /\ AllGood(frames)
    /\ Len(frames) = MaxFrames
    /\ Len(frames[1].payload) = 1
    /\ Len(frames[MaxFrames].payload) = MaxPayload
    /\ closed
    /\ pos = Len(wire)
    /\ sink = PayloadsOf(frames)

\* C2: byte conservation.  While the loop runs, the unpacked prefixes, each
\* followed by its written payload, followed by the buffer, are exactly the
\* bytes received so far.
C2_ByteConservation ==
    pc \in {"top", "payload"} =>
        /\ Consumed(hdrs, sink) \o buf = Received
        /\ \A i \in 1..Len(hdrs) : Len(hdrs[i]) = HeaderSize

C2_Witness ==
    /\ pc = "top"
    /\ Len(sink) = 1
    /\ sink[1] # <<>>
    /\ Len(buf) > HeaderSize

\* C3: no partial frame.  Every step that changes the sink appends one
\* payload whose length is the payload_len of the header last unpacked,
\* whose marker is MAGIC; a step that ends the run writes nothing.
C3_NoPartialFrame ==
    [][ /\ (sink' # sink) =>
              /\ sink' = Append(sink, sink'[Len(sink')])
              /\ hdr' = hdr
              /\ hdr.magic = MAGIC
              /\ Len(sink'[Len(sink')]) = hdr.payload_len
        /\ (pc' \in {"done", "exit3"}) => sink' = sink
      ]_vars

C3_Witness ==
    /\ exitPath = "except65"
    /\ Len(sink) = 1
    /\ Len(sink[1]) = MaxPayload
    /\ hdr.payload_len = 1

\* C4: a stream that ends after a whole header and before its payload is
\* whole ends in an outcome that differs from the clean end of stream.
\* (The loop left at line 57 is that case with no payload byte buffered.)
C4_TruncatedPayloadIsError == (exitPath = "break57") => ~CleanOutcome

\* C5: when recv returns b"" while a header is awaited and 1..35 bytes are
\* buffered, that step ends the run, and not with the clean outcome.
C5_TruncatedHeaderFails ==
    [][ (pc = "top" /\ ~closed /\ closed' /\ buf # <<>> /\ Len(buf) < HeaderSize)
          => (Terminated' /\ ~CleanOutcome') ]_vars

\* the first four bytes of the stream are not the marker
BadFirst4 == Len(wire) >= 4 /\ FromBE(Slice(wire, 0, 4)) # MAGIC

ProtocolErrorOutcome ==
    /\ pc = "exit3"
    /\ ExitStatus = 3
    /\ LastLine[1] = "Bad magic"
    /\ sink = <<>>

\* the loop can take a step that changes the state
CanProgress == ENABLED <<Step>>_vars

\* C6 as claimed: once a stream of any length (four bytes or more) whose
\* first four bytes are not the marker has ended, the run has the protocol
\* error outcome or, unless it was interrupted, is still on its way to it.
C6_AnyLengthBadMagic ==
    (closed /\ pos >= 4 /\ BadFirst4 /\ exitPath # "except67")
        => (ProtocolErrorOutcome \/ CanProgress)

\* C6 as amended: once 36 bytes of a stream whose first four bytes are not
\* the marker have been received, however they were chunked, the loop has a
\* next step, every step it takes (an interrupt aside) ends the run with
\* "Bad magic", exit status 3 and an empty sink, and no run that got that
\* far ended otherwise.
C6_BadMagicAfterHeader ==
    /\ [](pos >= HeaderSize /\ BadFirst4 /\ exitPath # "except67"
            => (ProtocolErrorOutcome \/ (~Terminated /\ CanProgress)))
    /\ [][ (pos >= HeaderSize /\ BadFirst4 /\ ~Terminated
             /\ exitPath' # "except67")
            => ProtocolErrorOutcome' ]_vars

C6_Witness ==
    /\ BadFirst4
    /\ ProtocolErrorOutcome
    /\ Len(wire) > HeaderSize
    /\ pos = Len(wire)

\* the frames of the stream that were received whole
RECURSIVE CompleteFrames(_, _)
CompleteFrames(fs, n) ==
    IF fs = <<>> \/ Len(EncodeFrame(Head(fs))) > n THEN 0
    ELSE 1 + CompleteFrames(Tail(fs), n - Len(EncodeFrame(Head(fs))))

\* C7: when recv returns b"" while a header is awaited and the buffer is
\* empty, that step ends the run cleanly: exit status 0, no "Bad magic", and
\* the closing line reports as many frames as the stream held whole, all of
\* them written.
C7_CleanEnd ==
    [][ (pc = "top" /\ ~closed /\ closed' /\ buf = <<>>)
          => /\ pc' = "done"
             /\ ExitStatus' = 0
             /\ stderr' = Append(stderr, DoneLine(CompleteFrames(frames, pos)))
             /\ \A i \in 1..Len(stderr) : stderr[i][1] # "Bad magic"
             /\ frame_count' = CompleteFrames(frames, pos)
             /\ Len(sink') = frame_count'
      ]_vars

C7_Witness ==
    /\ exitPath = "break40"
    /\ frame_count = MaxFrames
    /\ LastLine = DoneLine(MaxFrames)

\* C8: after a header with payload_len = 0 the next step of the loop writes
\* the empty payload and counts it, without a read and without touching the
\* buffer, and the loop is back at its top with need = 36.
C8_EmptyPayload ==
    [][ (pc = "payload" /\ hdr.payload_len = 0 /\ exitPath' # "except67")
          => /\ sink' = Append(sink, <<>>)
             /\ frame_count' = frame_count + 1
             /\ pos' = pos
             /\ closed' = closed
             /\ buf' = buf
             /\ need' = HeaderSize
             /\ pc' = "top"
      ]_vars

C8_Witness ==
    /\ pc = "top"
    /\ hdr.payload_len = 0
    /\ frame_count = 1
    /\ sink = << <<>> >>
    /\ buf # <<>>
    /\ need = HeaderSize

\* C9: a run ended by a fatal condition has reported the number of frames
\* decoded before it.  (Stated for the bad marker.)
C9_FatalReportsCount ==
    (exitPath = "exit48") =>
        \E i \in 1..Len(stderr) : stderr[i] = DoneLine(frame_count)

\* C10: the step in which the write raises BrokenPipeError leaves the sink
\* and the frame count as they were, reads nothing, and ends the run with
\* the normal outcome; no step follows the end of a run.
C10_BrokenPipe ==
    [][ /\ (exitPath = "running" /\ exitPath' = "except65")
              => /\ sink' = sink
                 /\ frame_count' = frame_count
                 /\ frame_count' = Len(sink')
                 /\ pos' = pos
                 /\ closed' = closed
                 /\ CleanOutcome'
                 /\ LastLine' = DoneLine(Len(sink))
        /\ Terminated => UNCHANGED vars
      ]_vars

C10_Witness ==
    /\ exitPath = "except65"
    /\ frame_count = 1
    /\ Len(sink) = 1
    /\ hdr.payload_len = MaxPayload
    /\ Len(hdrs) = 2

\* C11: terminal states are absorbing.  Once the run has ended (line 69
\* reached, or sys.exit(3)), no step reads from the transport, writes to the
\* sink or to stderr, or changes the frame count or the outcome.
C11_TerminalAbsorbing ==
    [][ Terminated =>
          /\ pos' = pos
          /\ closed' = closed
          /\ sink' = sink
          /\ stderr' = stderr
          /\ frame_count' = frame_count
          /\ pc' = pc
          /\ exitPath' = exitPath
      ]_vars

C11_Witness ==
    /\ pc = "exit3"
    /\ frame_count = 1
    /\ buf # <<>>

\* C12: no resynchronisation.  The step that unpacks a header whose marker
\* is not MAGIC, at any frame position, ends the run with "Bad magic" and
\* exit status 3 without a read or a write; after it no byte is read, no
\* further header is unpacked and nothing is written, and the payloads of
\* the frames before it are in the sink.
C12_NoResync ==
    /\ [][ (hdrs' # hdrs /\ hdr'.magic # MAGIC) =>
              /\ pc' = "exit3"
              /\ ExitStatus' = 3
              /\ stderr' = Append(stderr, BadMagicLine(hdr'.magic))
              /\ sink' = sink
              /\ frame_count' = frame_count
              /\ pos' = pos
              /\ closed' = closed
          ]_vars
    /\ [][ pc = "exit3" => (pos' = pos /\ hdrs' = hdrs /\ sink' = sink) ]_vars
    /\ [](exitPath = "exit48" =>
            /\ Len(sink) = Len(hdrs) - 1
            /\ sink = SubSeq(PayloadsOf(frames), 1, Len(hdrs) - 1))

C12_Witness ==
    /\ exitPath = "exit48"
    /\ Len(hdrs) = 2
    /\ Len(sink) = 1
    /\ sink[1] # <<>>
    /\ buf # <<>>

\* C13: the transport is read only when needed.  A step that reads (bytes
\* arrive, or end-of-stream is seen) starts with fewer than 36 bytes
\* buffered while a header is awaited, or fewer than payload_len while a
\* payload is awaited; with the requirement met, the next step of the loop
\* unpacks the header, or writes the payload, and reads nothing.
C13_ReadOnlyWhenShort ==
    /\ [][ (pos' # pos \/ closed' # closed) =>
              \/ (pc = "top" /\ Len(buf) < HeaderSize)
              \/ (pc = "payload" /\ Len(buf) < hdr.payload_len)
          ]_vars
    /\ [][ (pc = "top" /\ Len(buf) >= HeaderSize /\ exitPath' # "except67") =>
              /\ hdrs' = Append(hdrs, SubSeq(buf, 1, HeaderSize))
              /\ pos' = pos
              /\ closed' = closed
          ]_vars
    /\ [][ (pc = "payload" /\ Len(buf) >= hdr.payload_len
             /\ exitPath' # "except67") =>
              /\ \/ sink' = Append(sink, SubSeq(buf, 1, hdr.payload_len))
                 \/ exitPath' = "except65"
              /\ pos' = pos
              /\ closed' = closed
          ]_vars

C13_Witness ==
    /\ pc = "payload"
    /\ frame_count = 1
    /\ buf # <<>>
    /\ Len(buf) < hdr.payload_len
    /\ ~closed

\* C14: a header is unpacked only from a buffer of at least 36 bytes, the
\* unpack takes exactly the first 36 bytes off the buffer, and need is 36
\* whenever the loop is at its top (at the start and after every frame).
C14_HeaderNeeds36 ==
    /\ [](pc = "top" => need = HeaderSize)
    /\ [][ (hdrs' # hdrs \/ hdr' # hdr) =>
              /\ pc = "top"
              /\ Len(buf) >= HeaderSize
              /\ hdrs' = Append(hdrs, SubSeq(buf, 1, HeaderSize))
              /\ hdr' = Unpack(SubSeq(buf, 1, HeaderSize))
              /\ buf' = SubSeq(buf, HeaderSize + 1, Len(buf))
              /\ Len(buf') = Len(buf) - HeaderSize
          ]_vars

C14_Witness ==
    /\ pc = "payload"
    /\ Len(hdrs) = 2
    /\ frame_count = 1
    /\ Len(sink[1]) = 1
    /\ hdr.payload_len = MaxPayload

\* the bytes the loop is waiting for: need at its top, payload_len in the
\* payload loop
Requirement == IF pc = "payload" THEN hdr.payload_len ELSE need

C16_TerminatesAfterEOS == closed => (Terminated \/ CanProgress)

\* the unpacked headers with marker MAGIC for which a payload of the
\* declared length is in the sink
WrittenFrames ==
    Cardinality({ i \in 1..Len(hdrs) :
                    /\ Unpack(hdrs[i]).magic = MAGIC
                    /\ i <= Len(sink)
                    /\ Len(sink[i]) = Unpack(hdrs[i]).payload_len })

StreamLines == { i \in 1..Len(stderr) : stderr[i][1] = "Stream" }

\* C19: the stream-dimension line is written at most once in a run: by the
\* step that unpacks the first header, after its marker was found to be
\* MAGIC, and with that header's values; no later header adds another one.
C19_StreamLineOnce ==
    /\ [](/\ Cardinality(StreamLines) <= 1
          /\ StreamLines # {} =>
                /\ StreamLines = {1}
                /\ hdrs # <<>>
                /\ Unpack(hdrs[1]).magic = MAGIC
                /\ stderr[1] = StreamLine(Unpack(hdrs[1])))
    /\ [][ (StreamLines' # StreamLines) =>
              /\ hdrs = <<>>
              /\ Len(hdrs') = 1
              /\ hdr'.magic = MAGIC
              /\ frame_count = 0
          ]_vars

C19_Witness ==
    /\ Len(hdrs) = 2
    /\ Unpack(hdrs[1]).width # Unpack(hdrs[2]).width
    /\ hdr.magic = MAGIC
    /\ StreamLines = {1}
    /\ stderr[1] = StreamLine(Unpack(hdrs[1]))

\* the lines of stderr other than the stream-dimension line
RECURSIVE Reports(_)
Reports(ls) ==
    IF ls = <<>> THEN <<>>
    ELSE IF Head(ls)[1] = "Stream" THEN Reports(Tail(ls))
    ELSE <<Head(ls)>> \o Reports(Tail(ls))

\* C18: independence from frame metadata.  A run on the stream and a run on
\* the same stream with other widths, heights, strides and timestamps,
\* given the same recv sizes, make the same reads and the same payload
\* writes, count the same frames and end the same way.
C18_MetadataIndependence ==
    /\ twin.pc = pc
    /\ twin.exitPath = exitPath
    /\ twin.pos = pos
    /\ Len(twin.buf) = Len(buf)
    /\ twin.sink = sink
    /\ twin.frame_count = frame_count
    /\ twin.need = need
    /\ twin.hdr.magic = hdr.magic
    /\ twin.hdr.payload_len = hdr.payload_len
    /\ Reports(twin.stderr) = Reports(stderr)

C18_Witness ==
    /\ exitPath = "break40"
    /\ Len(frames) = 2
    /\ frames[1].meta # frames[2].meta
    /\ twin.wire # wire
    /\ twin.hdr.width # hdr.width
    /\ Len(sink) = 2
    /\ twin.sink = sink
====
